---- MODULE Spec2Model ----
(***************************************************************************)
(* Model of pkg/server/server.go: the Server that initializes, runs and    *)
(* shuts down the background services.                                     *)
(*                                                                         *)
(* Threads of the model: the constructor New, the caller of Run, one       *)
(* goroutine per launched service (errgroup.Group.Go), and NumCallers      *)
(* callers of Shutdown; in some specifications also a second caller of     *)
(* init and a further call of Run.  The library types the Server uses are  *)
(* modelled by their documented behaviour: context (cancelling a context   *)
(* cancels the contexts derived from it), sync.Mutex, sync.Once (Do runs   *)
(* the function for the first caller; other callers wait until it has      *)
(* returned), errgroup.Group (the first non-nil error is kept and cancels  *)
(* the group context; Wait waits for all goroutines) and channels.         *)
(***************************************************************************)
EXTENDS Integers, Sequences, FiniteSets, TLC

\* ------------------------------------------------------------------ bounds
NumServices == 2      \* len(s.backgroundServices.BackgroundServices)
NumCallers == 2       \* goroutines calling Shutdown
MaxTime == 1          \* the clock runs 0..MaxTime; deadlines are clock values
MaxLen == 2           \* stringToTime: the longest values vector of a field

Services == 1..NumServices
Callers == 1..NumCallers
NoDeadline == 0       \* context.Background(): a ctx that is never done
Deadlines == 0..MaxTime

\* ------------------------------------------------------------------ errors
\* An error is its chain of wrapped errors, outermost first; nil is the
\* empty chain.  fmt.Errorf("...: %w", err) puts one link in front.
Link(m, s) == [msg |-> m, svc |-> s]
Nil == << >>
Canceled == << Link("context canceled", 0) >>
Failure(s) == << Link("service failure", s) >>
Wrap(m, err) == << Link(m, 0) >> \o err
TimeoutErr == << Link("timeout waiting for shutdown", 0) >>
MetricsErr == << Link("metrics environment error", 0) >>
MigrateErr == << Link("migration error", 0) >>

\* errors.Is(err, target) for a sentinel target: some link of the chain is it.
ErrorsIs(err, target) ==
  \E i \in 1..Len(err) : << err[i] >> = target

\* What service.Run(ctx) may return: nil, an error of its own, ctx.Err(), or
\* an error of its own that wraps ctx.Err().
ServiceReturns(s) ==
  { Nil, Failure(s), Canceled, Wrap("service stopped", Canceled) }

VARIABLES
  server,            \* "constructing" | "ready" | "none": what New has returned
  pidFile,           \* s.pidFile: "" or a path
  isInitialized,     \* s.isInitialized
  mtx,               \* s.mtx: "free" or the thread holding it
  effects,           \* how often each one-time side effect of init has run
  exited,            \* os.Exit(1) was called
  pidFailed,         \* writePIDFile could not create the directory or write the file
  panicked,          \* a goroutine panicked (close of a closed channel)
  context,           \* s.context: "active" | "canceled"
  shutdownFnCalls,   \* number of calls of s.shutdownFn
  shutdownFinished,  \* the channel s.shutdownFinished: "open" | "closed"
  shutdownOnce,      \* s.shutdownOnce: [done, m], m the caller holding its mutex or 0
  runPc,             \* where the caller of Run is
  runErr,            \* what the last Run returned
  initErr,           \* what init returned to New / Run
  eg,                \* the errgroup.Group of the current Run: [err, errOnce]
  ctx,               \* the group context of the current Run: "none" | "active" | "canceled"
  next,              \* index of the service the launch loop is at
  taskPc,            \* per service: where its goroutine is
  taskErr,           \* per service: what the goroutine's function returned
  svcErr,            \* per service: what service.Run returned
  invoked,           \* per service: number of calls of service.Run
  passed,            \* per service: the context given to service.Run, or "none"
  disabled,          \* per service: it reported disabled in the launch loop
  firstFailure,      \* the first service whose Run returned a non-cancellation error, or 0
  notified,          \* number of notifySystemd calls
  sdPc,              \* per Shutdown caller: where it is
  sdCtx,             \* per Shutdown caller: the deadline of the ctx it passed
  sdErr,             \* per Shutdown caller: its local variable err
  now,               \* the clock
  exitCode,          \* what ExitCode returned to the caller of Run
  rerun,             \* Run was called again after it had returned
  init2Pc,           \* where a second caller of s.init() is
  init2Err,          \* what init returned to the second caller
  overlap,           \* two calls of init were in progress at the same time
  frames,            \* stringToTime: the frames the caller holds
  source,            \* stringToTime: the frames as they were at the call
  options,           \* stringToTime: the options of the call
  output,            \* stringToTime: what the call returned
  stPc,              \* stringToTime: "idle" | "done"
  notifyEnv,         \* what notifySystemd finds: NOTIFY_SOCKET set, dial and write succeeding
  notifyLog          \* how the last call of notifySystemd ended

vars == << server, pidFile, isInitialized, mtx, effects, exited, pidFailed, panicked,
           context, shutdownFnCalls, shutdownFinished, shutdownOnce,
           runPc, runErr, initErr, eg, ctx, next,
           taskPc, taskErr, svcErr, invoked, passed, disabled, firstFailure, notified,
           sdPc, sdCtx, sdErr, now,
           exitCode, rerun, init2Pc, init2Err, overlap,
           frames, source, options, output, stPc, notifyEnv, notifyLog >>

serverVars == << server, pidFile, isInitialized, mtx, effects, exited, pidFailed, initErr >>
rootVars == << context, shutdownFnCalls >>
runVars == << runPc, runErr, next, notified >>
groupVars == << eg, ctx >>
taskVars == << taskPc, taskErr, svcErr, invoked, passed, disabled, firstFailure >>
sdVars == << sdPc, sdCtx, sdErr, shutdownOnce >>
mainVars == << exitCode, rerun >>
init2Vars == << init2Pc, init2Err, overlap >>
frameVars == << frames, source, options, output, stPc >>
notifyVars == << notifyEnv, notifyLog >>

NoEffects == [pid |-> 0, metrics |-> 0, login |-> 0, oauth |-> 0, migrate |-> 0]

\* The process is still executing: neither os.Exit nor a panic ended it.
Alive == ~exited /\ ~panicked

\* The Server value exists and can have methods called on it.
Ready == server = "ready" /\ Alive

\* --------------------------------------------------------------------- init
\* writePIDFile treating a failure as logged only.
PidFatalNever(pf, pidOk) == FALSE

\* writePIDFile, lines 211-227: with a path configured, a failure of
\* os.MkdirAll or of ioutil.WriteFile ends in os.Exit(1).
PidFatal(pf, pidOk) == pf # "" /\ ~pidOk

\* Server.init, lines 121-131, after the lock is taken and the check of
\* s.isInitialized, as a function of what the
\* collaborators do: pidOk (the PID file can be written), metricsOk
\* (SetEnvironmentInformation succeeds), migrateOk (SQLStore.Migrate succeeds).
\* It gives the error returned, whether os.Exit was called, and the new
\* isInitialized and effects.
InitSteps(eff, pf, pidOk, metricsOk, migrateOk) ==
  IF PidFatal(pf, pidOk)
    THEN [err |-> Nil, exit |-> TRUE, initialized |-> TRUE,
          eff |-> [eff EXCEPT !.pid = @ + 1]]
  ELSE LET e1 == IF pf # "" THEN [eff EXCEPT !.pid = @ + 1] ELSE eff
           e2 == [e1 EXCEPT !.metrics = @ + 1]
           e3 == [e2 EXCEPT !.login = @ + 1, !.oauth = @ + 1, !.migrate = @ + 1]
       IN IF ~metricsOk
            THEN [err |-> MetricsErr, exit |-> FALSE, initialized |-> TRUE, eff |-> e2]
          ELSE IF ~migrateOk
            THEN [err |-> MigrateErr, exit |-> FALSE, initialized |-> TRUE, eff |-> e3]
          ELSE [err |-> Nil, exit |-> FALSE, initialized |-> TRUE, eff |-> e3]

\* InitBody without the check of s.isInitialized.
InitBodyUnguarded(initialized, eff, pf, pidOk, metricsOk, migrateOk) ==
  InitSteps(eff, pf, pidOk, metricsOk, migrateOk)

\* Server.init, lines 118-131: nothing is done on an initialized Server.
InitBody(initialized, eff, pf, pidOk, metricsOk, migrateOk) ==
  IF initialized
    THEN [err |-> Nil, exit |-> FALSE, initialized |-> TRUE, eff |-> eff]
    ELSE InitSteps(eff, pf, pidOk, metricsOk, migrateOk)

\* s.mtx.Lock() by thread t.
InitLock(t) ==
  /\ mtx = "free"
  /\ mtx' = t

\* The rest of init by the thread holding the lock; the deferred Unlock runs
\* unless the process exited.  The error goes to initErr.
InitRun(t) ==
  /\ mtx = t
  /\ \E pidOk, metricsOk, migrateOk \in BOOLEAN :
       LET r == InitBody(isInitialized, effects, pidFile, pidOk, metricsOk, migrateOk)
       IN /\ isInitialized' = r.initialized
          /\ effects' = r.eff
          /\ exited' = r.exit
          /\ pidFailed' = (pidFailed \/ (~isInitialized /\ pidFile # "" /\ ~pidOk))
          /\ initErr' = r.err
          /\ mtx' = IF r.exit THEN t ELSE "free"

\* ---------------------------------------------------------------------- New
\* New, line 86: s.init() is entered.
NewInitLock ==
  /\ Alive /\ server = "constructing"
  /\ InitLock("New")
  /\ UNCHANGED << server, pidFile, isInitialized, effects, exited, pidFailed, initErr, panicked,
                  shutdownFinished >>
  /\ UNCHANGED << rootVars, runVars, groupVars, taskVars, sdVars, now >>
  /\ UNCHANGED << mainVars, init2Vars >>
  /\ UNCHANGED frameVars
  /\ UNCHANGED notifyVars

\* New, lines 86-90: init returns; New returns the Server or (nil, err).
\* When init ended the process, New does not return.
NewReturn ==
  /\ Alive /\ server = "constructing"
  /\ InitRun("New")
  /\ server' = IF exited' THEN server ELSE IF initErr' # Nil THEN "none" ELSE "ready"
  /\ UNCHANGED << pidFile, panicked, shutdownFinished >>
  /\ UNCHANGED << rootVars, runVars, groupVars, taskVars, sdVars, now >>
  /\ UNCHANGED << mainVars, init2Vars >>
  /\ UNCHANGED frameVars
  /\ UNCHANGED notifyVars

\* ------------------------------------------------- a second caller of init
\* A goroutine other than the caller of Run calls s.init() on the Server
\* (line 114); the call overlaps an init call of Run that has not returned.
Init2Call ==
  /\ Ready /\ init2Pc = "idle"
  /\ init2Pc' = "init"
  /\ overlap' = (overlap \/ runPc = "init")
  /\ UNCHANGED << serverVars, rootVars, runVars, groupVars, taskVars, sdVars, mainVars,
                  init2Err, panicked, shutdownFinished, now >>
  /\ UNCHANGED frameVars
  /\ UNCHANGED notifyVars

\* init, line 115: the second caller takes the lock.
Init2Lock ==
  /\ Alive /\ init2Pc = "init"
  /\ InitLock("Init2")
  /\ UNCHANGED << server, pidFile, isInitialized, effects, exited, pidFailed, initErr, panicked,
                  shutdownFinished >>
  /\ UNCHANGED << rootVars, runVars, groupVars, taskVars, sdVars, mainVars, init2Vars, now >>
  /\ UNCHANGED frameVars
  /\ UNCHANGED notifyVars

\* init, lines 116-131: init returns to the second caller.
Init2Return ==
  /\ Alive /\ init2Pc = "init"
  /\ InitRun("Init2")
  /\ init2Pc' = IF exited' THEN init2Pc ELSE "done"
  /\ init2Err' = initErr'
  /\ UNCHANGED << server, pidFile, panicked, shutdownFinished, overlap >>
  /\ UNCHANGED << rootVars, runVars, groupVars, taskVars, sdVars, mainVars, now >>
  /\ UNCHANGED frameVars
  /\ UNCHANGED notifyVars

\* ---------------------------------------------------------------------- Run
NewGroup == [err |-> Nil, errOnce |-> FALSE]

\* Run is called (lines 136-137): the close of shutdownFinished is deferred.
RunCall ==
  /\ Ready /\ runPc = "idle"
  /\ runPc' = "init"
  /\ UNCHANGED << serverVars, rootVars, groupVars, taskVars, sdVars, panicked,
                  shutdownFinished, runErr, next, notified, now >>
  /\ overlap' = (overlap \/ init2Pc = "init")
  /\ UNCHANGED << mainVars, init2Pc, init2Err >>
  /\ UNCHANGED frameVars
  /\ UNCHANGED notifyVars

\* Run, line 139: s.init() takes the lock.
RunInitLock ==
  /\ Alive /\ runPc = "init"
  /\ InitLock("Run")
  /\ UNCHANGED << server, pidFile, isInitialized, effects, exited, pidFailed, initErr, panicked,
                  shutdownFinished >>
  /\ UNCHANGED << rootVars, runVars, groupVars, taskVars, sdVars, now >>
  /\ UNCHANGED << mainVars, init2Vars >>
  /\ UNCHANGED frameVars
  /\ UNCHANGED notifyVars

\* AfterInit with a return that skips the deferred close.
AfterInitNoDefer(err) == IF err # Nil THEN "returned" ELSE "group"

\* Run, lines 137 and 139-141: where Run goes when init has returned err: to
\* its return, which runs the deferred close, or on to the launch.
AfterInit(err) == IF err # Nil THEN "closing" ELSE "group"

\* Run, lines 139-141: init returns; on an error Run returns it.  When init
\* ended the process, Run goes no further.
RunInit ==
  /\ Alive /\ runPc = "init"
  /\ InitRun("Run")
  /\ runPc' = IF exited' THEN runPc ELSE AfterInit(initErr')
  /\ runErr' = initErr'
  /\ UNCHANGED << server, pidFile, panicked, shutdownFinished, next, notified >>
  /\ UNCHANGED << rootVars, groupVars, taskVars, sdVars, now >>
  /\ UNCHANGED << mainVars, init2Vars >>
  /\ UNCHANGED frameVars
  /\ UNCHANGED notifyVars

\* Run, line 144: errgroup.WithContext(s.context).  The derived context is
\* cancelled from the start when its parent is.
RunGroup ==
  /\ Alive /\ runPc = "group"
  /\ eg' = NewGroup
  /\ ctx' = IF context = "canceled" THEN "canceled" ELSE "active"
  /\ runPc' = "launch"
  /\ UNCHANGED << serverVars, rootVars, taskVars, sdVars, panicked, shutdownFinished,
                  runErr, next, notified, now >>
  /\ UNCHANGED << mainVars, init2Vars >>
  /\ UNCHANGED frameVars
  /\ UNCHANGED notifyVars

\* What a service can be in the launch loop: <<canBeDisabled, isDisabled>>,
\* the outcome of the type assertion (line 146) and, for a CanBeDisabled,
\* what IsDisabled() reports (line 147).
ServiceKinds == { <<FALSE, FALSE>>, <<TRUE, FALSE>>, <<TRUE, TRUE>> }

\* Skipped with the report of IsDisabled() negated.
SkippedNegated(canBeDisabled, isDisabled) == canBeDisabled /\ ~isDisabled

\* Run, lines 146-149: whether the loop skips a service.
Skipped(canBeDisabled, isDisabled) == canBeDisabled /\ isDisabled

\* Run, lines 145-170: one iteration of the launch loop: the service is
\* skipped, or eg.Go starts its goroutine.
RunLaunch ==
  /\ Alive /\ runPc = "launch" /\ next <= NumServices
  /\ \E k \in ServiceKinds :
       /\ disabled' = [disabled EXCEPT ![next] = k[1] /\ k[2]]
       /\ taskPc' = [taskPc EXCEPT ![next] =
                       IF Skipped(k[1], k[2]) THEN "skipped" ELSE "spawned"]
  /\ next' = next + 1
  /\ UNCHANGED << serverVars, rootVars, groupVars, sdVars, panicked, shutdownFinished,
                  runPc, runErr, notified, taskErr, svcErr, invoked, passed,
                  firstFailure, now >>
  /\ UNCHANGED << mainVars, init2Vars >>
  /\ UNCHANGED frameVars
  /\ UNCHANGED notifyVars

\* RunNotify without the call of notifySystemd.
RunNotifyOmitted ==
  /\ Alive /\ runPc = "launch" /\ next > NumServices
  /\ runPc' = "wait"
  /\ UNCHANGED << serverVars, rootVars, groupVars, taskVars, sdVars, panicked,
                  shutdownFinished, runErr, next, notified, now >>
  /\ UNCHANGED << mainVars, init2Vars >>
  /\ UNCHANGED frameVars
  /\ UNCHANGED notifyVars

\* RunNotify with the notification left out when the group context is
\* already cancelled, by a failed service or by Shutdown.
RunNotifyIfActive ==
  /\ Alive /\ runPc = "launch" /\ next > NumServices
  /\ notified' = IF ctx = "canceled" THEN notified ELSE notified + 1
  /\ runPc' = "wait"
  /\ UNCHANGED << serverVars, rootVars, groupVars, taskVars, sdVars, panicked,
                  shutdownFinished, runErr, next, now >>
  /\ UNCHANGED << mainVars, init2Vars >>
  /\ UNCHANGED frameVars
  /\ UNCHANGED notifyVars

\* notifySystemd, lines 233-260: how the call ends in environment env.
notifySystemd(env) ==
  IF ~env.socket THEN "no socket"
  ELSE IF ~env.dialOk THEN "connect failed"
  ELSE IF ~env.writeOk THEN "write failed"
  ELSE "sent"

\* AfterNotify with Run returning when the notification failed.
AfterNotifyAbort(outcome) ==
  IF outcome \in {"connect failed", "write failed"} THEN "closing" ELSE "wait"

\* Run, lines 172-175: notifySystemd returns nothing; Run goes on to
\* eg.Wait() however the notification ended.
AfterNotify(outcome) == "wait"

\* Run, line 172: notifySystemd("READY=1") after the loop; whatever the
\* outcome of the notification (lines 233-260), nothing is returned.
RunNotify ==
  /\ Alive /\ runPc = "launch" /\ next > NumServices
  /\ notified' = notified + 1
  /\ notifyLog' = notifySystemd(notifyEnv)
  /\ runPc' = AfterNotify(notifyLog')
  /\ UNCHANGED notifyEnv
  /\ UNCHANGED << serverVars, rootVars, groupVars, taskVars, sdVars, panicked,
                  shutdownFinished, runErr, next, now >>
  /\ UNCHANGED << mainVars, init2Vars >>
  /\ UNCHANGED frameVars

\* Parent with the cancellation of the derived context reaching its parent.
ParentCanceledWithChild(parent, child) ==
  IF child = "canceled" THEN "canceled" ELSE parent

\* errgroup.WithContext(s.context), line 144: the group context is derived
\* from s.context by context.WithCancel; cancellation goes from a parent to
\* the contexts derived from it, not back.  Gives the parent when the
\* derived context has become child.
Parent(parent, child) == parent

\* WaitDone counting only the goroutines that are inside service.Run.
WaitNoneRunning(pcs) == \A s \in Services : pcs[s] # "running"

\* WaitDone counting the services of the loop, launched or not.
WaitDoneAll(pcs) == \A s \in Services : pcs[s] = "done"

\* eg.Wait() can return: every goroutine started by eg.Go has called wg.Done.
WaitDone(pcs) == \A s \in Services : pcs[s] \in {"pending", "skipped", "done"}

\* Run, line 175: eg.Wait() returns the group's error, having cancelled the
\* group context.
RunWait ==
  /\ Alive /\ runPc = "wait"
  /\ WaitDone(taskPc)
  /\ runErr' = eg.err
  /\ ctx' = "canceled"
  /\ context' = Parent(context, ctx')
  /\ runPc' = "closing"
  /\ UNCHANGED << serverVars, shutdownFnCalls, taskVars, sdVars, panicked,
                  shutdownFinished, eg, next, notified, now >>
  /\ UNCHANGED << mainVars, init2Vars >>
  /\ UNCHANGED frameVars
  /\ UNCHANGED notifyVars

\* Run, line 137: the deferred close(s.shutdownFinished) runs and Run
\* returns; closing a closed channel panics.
RunReturn ==
  /\ Alive /\ runPc = "closing"
  /\ IF shutdownFinished = "closed"
       THEN panicked' = TRUE /\ UNCHANGED shutdownFinished
       ELSE shutdownFinished' = "closed" /\ UNCHANGED panicked
  /\ runPc' = "returned"
  /\ UNCHANGED << serverVars, rootVars, groupVars, taskVars, sdVars,
                  runErr, next, notified, now >>
  /\ UNCHANGED << mainVars, init2Vars >>
  /\ UNCHANGED frameVars
  /\ UNCHANGED notifyVars

\* Run is called again on the Server after a Run has returned (lines
\* 136-137): nothing in Run tells the second call from the first.  The loop
\* index, the group and the goroutines of the new call are new.
RunAgain ==
  /\ Ready /\ runPc = "returned"
  /\ runPc' = "init"
  /\ rerun' = TRUE
  /\ next' = 1
  /\ eg' = NewGroup
  /\ ctx' = "none"
  /\ taskPc' = [s \in Services |-> "pending"]
  /\ taskErr' = [s \in Services |-> Nil]
  /\ svcErr' = [s \in Services |-> Nil]
  /\ disabled' = [s \in Services |-> FALSE]
  /\ firstFailure' = 0
  /\ UNCHANGED << serverVars, rootVars, sdVars, init2Vars, panicked, shutdownFinished,
                  runErr, notified, invoked, passed, exitCode, now >>
  /\ UNCHANGED frameVars
  /\ UNCHANGED notifyVars

\* ------------------------------------------------- the service goroutines
\* TaskResult logging the error of the service and returning nil.
TaskResultSwallowed(err) == Nil

\* TaskResult wrapping whatever the service returned, nil included.
TaskResultWrapAll(err) == Wrap("background service run error", err)

\* TaskResult without the errors.Is check: every non-nil error is wrapped.
TaskResultWrapCanceled(err) ==
  IF err # Nil THEN Wrap("background service run error", err) ELSE Nil

\* Run, lines 163-168: what the goroutine returns for the err of service.Run.
TaskResult(err) ==
  IF err # Nil /\ ~ErrorsIs(err, Canceled)
    THEN Wrap("background service run error", err)
    ELSE Nil

\* ErrOnceDo recording the error without cancelling the group context.
ErrOnceNoCancel(g, c, err) ==
  IF err # Nil /\ ~g.errOnce
    THEN [g |-> [err |-> err, errOnce |-> TRUE], ctx |-> c]
    ELSE [g |-> g, ctx |-> c]

\* ErrOnceDo cancelling the group context on every return, nil included.
ErrOnceCancelOnReturn(g, c, err) ==
  IF err # Nil /\ ~g.errOnce
    THEN [g |-> [err |-> err, errOnce |-> TRUE], ctx |-> "canceled"]
    ELSE [g |-> g, ctx |-> "canceled"]

\* errgroup.Group.Go: for a non-nil err,
\* g.errOnce.Do(func() { g.err = err; g.cancel() }).  Gives the group and
\* its context afterwards.
ErrOnceDo(g, c, err) ==
  IF err # Nil /\ ~g.errOnce
    THEN [g |-> [err |-> err, errOnce |-> TRUE], ctx |-> "canceled"]
    ELSE [g |-> g, ctx |-> c]

\* AfterReturn with a goroutine that starts over when its function returned
\* an error.
AfterReturnRetry(err) == IF err # Nil THEN "spawned" ELSE "done"

\* errgroup.Group.Go (line 153) calls the function once: when it has
\* returned, with err or nil, the goroutine ends.
AfterReturn(err) == "done"

\* Run, line 159: the context service.Run is called with, of the root
\* context s.context and the group context ctx of line 144.
RunArg(root, group) == group

\* errgroup.Group.Go (line 153): the goroutine's function has returned err;
\* the error goes through errOnce, then wg.Done().
TaskExit(s, err) ==
  /\ LET r == ErrOnceDo(eg, ctx, err)
     IN eg' = r.g /\ ctx' = r.ctx
  /\ context' = Parent(context, ctx')
  /\ taskErr' = [taskErr EXCEPT ![s] = err]
  /\ taskPc' = [taskPc EXCEPT ![s] = AfterReturn(err)]

\* The goroutine calling service.Run without looking at the context.
PreCheckNone(c) == FALSE

\* Run, lines 154-158: the select on ctx.Done() with a default: the
\* goroutine returns ctx.Err() when the group context is done.
PreCheck(c) == c = "canceled"

\* Run, lines 154-159: the goroutine of service s starts; with the group
\* context done it returns ctx.Err() without calling the service, else it
\* calls service.Run(ctx).
TaskStart(s) ==
  /\ Alive /\ taskPc[s] = "spawned"
  /\ IF PreCheck(ctx)
       THEN /\ TaskExit(s, Canceled)
            /\ UNCHANGED << invoked, passed >>
       ELSE /\ taskPc' = [taskPc EXCEPT ![s] = "running"]
            /\ invoked' = [invoked EXCEPT ![s] = @ + 1]
            /\ passed' = [passed EXCEPT ![s] = RunArg("s.context", "ctx")]
            /\ UNCHANGED << taskErr, groupVars, context >>
  /\ UNCHANGED << serverVars, shutdownFnCalls, runVars, sdVars, panicked,
                  shutdownFinished, svcErr, disabled, firstFailure, now >>
  /\ UNCHANGED << mainVars, init2Vars >>
  /\ UNCHANGED frameVars
  /\ UNCHANGED notifyVars

\* Run, lines 159-168: service.Run(ctx) returns err and the goroutine's
\* function returns what lines 163-168 make of it.
ServiceReturn(s) ==
  /\ Alive /\ taskPc[s] = "running"
  /\ \E err \in ServiceReturns(s) :
       /\ svcErr' = [svcErr EXCEPT ![s] = err]
       /\ firstFailure' = IF firstFailure = 0 /\ err # Nil /\ ~ErrorsIs(err, Canceled)
                             THEN s ELSE firstFailure
       /\ TaskExit(s, TaskResult(err))
  /\ UNCHANGED << serverVars, shutdownFnCalls, runVars, sdVars, panicked,
                  shutdownFinished, invoked, passed, disabled, now >>
  /\ UNCHANGED << mainVars, init2Vars >>
  /\ UNCHANGED frameVars
  /\ UNCHANGED notifyVars

\* ----------------------------------------------------------------- Shutdown
\* The ctx of caller c is done: it has a deadline and the clock reached it.
CtxDone(c) == sdCtx[c] # NoDeadline /\ now >= sdCtx[c]

\* OnceEnter without the done flag: only the mutex guards the function.
OnceEnterNoDone(once) ==
  IF once.m = 0 THEN "run" ELSE "block"

\* sync.Once.Do as entered by a caller: "skip" when the Once is done, "run"
\* when this caller is the one to execute the function, "block" while
\* another caller executes it.
OnceEnter(once) ==
  IF once.done THEN "skip" ELSE IF once.m = 0 THEN "run" ELSE "block"

\* Shutdown calling s.shutdownFn() before it enters the Once.
CancelsAlways(enter) == TRUE

\* Shutdown without the call of s.shutdownFn().
CancelsNever(enter) == FALSE

\* Shutdown, lines 183-186: s.shutdownFn() is called inside the function
\* given to s.shutdownOnce.Do, so by the caller that executes it.
Cancels(enter) == enter = "run"

\* Shutdown is called with a ctx of deadline d (lines 181-186) and enters
\* s.shutdownOnce.Do.  The caller that executes the function calls
\* s.shutdownFn(), which cancels s.context and with it the group context
\* derived from it; a caller that finds the Once done returns its err (line
\* 197); a caller that finds it in progress waits for it.  The callers are
\* interchangeable: they are numbered in the order of their calls.
ShutdownCall(c) ==
  /\ Ready /\ sdPc[c] = "idle"
  /\ \A b \in Callers : b < c => sdPc[b] # "idle"
  /\ \E d \in Deadlines : sdCtx' = [sdCtx EXCEPT ![c] = d]
  /\ sdErr' = [sdErr EXCEPT ![c] = Nil]
  /\ IF Cancels(OnceEnter(shutdownOnce))
       THEN /\ context' = "canceled"
            /\ shutdownFnCalls' = shutdownFnCalls + 1
            /\ ctx' = IF ctx = "none" THEN "none" ELSE "canceled"
       ELSE UNCHANGED << context, shutdownFnCalls, ctx >>
  /\ IF OnceEnter(shutdownOnce) = "run"
       THEN /\ shutdownOnce' = [shutdownOnce EXCEPT !.m = c]
            /\ sdPc' = [sdPc EXCEPT ![c] = "select"]
       ELSE /\ sdPc' = [sdPc EXCEPT ![c] =
                          IF OnceEnter(shutdownOnce) = "skip" THEN "returned" ELSE "blocked"]
            /\ UNCHANGED shutdownOnce
  /\ UNCHANGED << serverVars, runVars, taskVars, eg, panicked, shutdownFinished, now >>
  /\ UNCHANGED << mainVars, init2Vars >>
  /\ UNCHANGED frameVars
  /\ UNCHANGED notifyVars

\* Shutdown, lines 183 and 197: a caller that waited in s.shutdownOnce.Do
\* for the caller executing the function finds the Once done and returns
\* its err.
ShutdownUnblock(c) ==
  /\ Alive /\ sdPc[c] = "blocked"
  /\ OnceEnter(shutdownOnce) = "skip"
  /\ sdPc' = [sdPc EXCEPT ![c] = "returned"]
  /\ UNCHANGED << serverVars, rootVars, runVars, groupVars, taskVars, sdCtx, sdErr,
                  shutdownOnce, panicked, shutdownFinished, now >>
  /\ UNCHANGED << mainVars, init2Vars >>
  /\ UNCHANGED frameVars
  /\ UNCHANGED notifyVars

\* SelectErrs with a select that is only left when ctx is done.
SelectErrsAtDeadline(finished, ctxDone) ==
  IF ctxDone
    THEN (IF finished = "closed" THEN { Nil } ELSE {}) \cup { TimeoutErr }
    ELSE {}

\* Shutdown, lines 188-194: the branches of the select that are ready.
SelectErrs(finished, ctxDone) ==
  (IF finished = "closed" THEN { Nil } ELSE {}) \cup
  (IF ctxDone THEN { TimeoutErr } ELSE {})

\* Shutdown, lines 188-197: a ready branch of the select is taken, the Once
\* is done and Shutdown returns err.
ShutdownSelect(c) ==
  /\ Alive /\ sdPc[c] = "select"
  /\ \E e \in SelectErrs(shutdownFinished, CtxDone(c)) :
       sdErr' = [sdErr EXCEPT ![c] = e]
  /\ shutdownOnce' = [done |-> TRUE, m |-> 0]
  /\ sdPc' = [sdPc EXCEPT ![c] = "returned"]
  /\ UNCHANGED << serverVars, rootVars, runVars, groupVars, taskVars, sdCtx,
                  panicked, shutdownFinished, now >>
  /\ UNCHANGED << mainVars, init2Vars >>
  /\ UNCHANGED frameVars
  /\ UNCHANGED notifyVars

\* ----------------------------------------------------------------- ExitCode
\* ExitCode returning 0 for every error.
ExitCodeZero(runError) == 0

\* ExitCode, lines 201-207: 1 for a non-nil error, 0 for nil.
ExitCode(runError) == IF runError # Nil THEN 1 ELSE 0

\* The caller of Run passes what Run returned to ExitCode (lines 201-207).
ExitCodeCall ==
  /\ Alive /\ runPc = "returned"
  /\ exitCode' = ExitCode(runErr)
  /\ runPc' = "exit"
  /\ UNCHANGED << serverVars, rootVars, groupVars, taskVars, sdVars, init2Vars,
                  panicked, shutdownFinished, runErr, next, notified, now, rerun >>
  /\ UNCHANGED frameVars
  /\ UNCHANGED notifyVars

\* ------------------------------------------------------------- stringToTime
\* packages/grafana-data/src/transformations/transformers/stringToTime.ts.
\* The values of a field and of the variables of the code, by their
\* JavaScript kind.
Str(s) == [kind |-> "string", s |-> s]
Num(n) == [kind |-> "number", n |-> n]
Null == [kind |-> "null"]
Undefined == [kind |-> "undefined"]
NaN == [kind |-> "NaN"]
DateTimeObject(s) == [kind |-> "DateTime", s |-> s]

\* if (value): null, undefined, "", 0 and NaN are falsy.
Truthy(value) == value \notin { Null, Undefined, Str(""), Num(0), NaN }

\* lodash isNumber: typeof value == 'number', NaN included.
isNumber(value) == value.kind \in {"number", "NaN"}

\* isFinite taking every value for finite.
isFiniteAlways(value) == TRUE

\* lodash isFinite: a number that is neither NaN nor infinite.
isFinite(value) == value.kind = "number"

\* The strings of the model that dateTimeParse can read as a date.
ValidDates == { "2021-07-19 00:00:00.000" }

\* dateTimeParse(value).valueOf(): the timestamp (here in seconds) of a
\* string that reads as a date, the number itself for a number, NaN for
\* any other string.
dateTimeParseValueOf(value) ==
  IF value.kind = "number" THEN value
  ELSE IF value.kind = "string" /\ value.s \in ValidDates THEN Num(1626652800)
  ELSE NaN

\* dateTimeParse(value, { format: dateFormat }): a DateTime object.
dateTimeParse(value, dateFormat) == DateTimeObject(value)

\* field.values.get(i), zero-based.
Get(values, i) == IF i + 1 \in 1..Len(values) THEN values[i + 1] ELSE Undefined

\* stringToTimeField, lines 90-109.
stringToTimeField(field, dateFormat) ==
  [field EXCEPT
     !.type = "time",
     !.values = [k \in 1..Len(field.values) |->
                   LET value == field.values[k]
                       parsed == IF dateFormat # ""
                                   THEN dateTimeParse(value, dateFormat)
                                   ELSE dateTimeParseValueOf(value)
                   IN IF Truthy(value) /\ isFinite(parsed) THEN parsed ELSE Undefined]]

\* ensureTimeField, lines 111-119.
ensureTimeField(field, dateFormat) ==
  IF (field.type = "time" /\ Len(field.values) # 0) \/ isNumber(Get(field.values, 0))
    THEN field
    ELSE stringToTimeField(field, dateFormat)

\* stringToTime, lines 70-88.  A frame is the sequence of its fields; an
\* unset targetField or dateFormat is the empty string, falsy like undefined.
stringToTime(opts, frs) ==
  IF opts.targetField = ""
    THEN frs
    ELSE [i \in 1..Len(frs) |->
           [j \in 1..Len(frs[i]) |->
              IF frs[i][j].name = opts.targetField
                THEN ensureTimeField(frs[i][j], opts.dateFormat)
                ELSE frs[i][j]]]

\* A call of stringToTime (lines 70-88): line 82 assigns the converted field
\* into the frame it was given, so the caller's frames change with it.
StringToTimeCall ==
  /\ stPc = "idle" /\ frames # << >>
  /\ output' = stringToTime(options, frames)
  /\ frames' = output'
  /\ stPc' = "done"
  /\ UNCHANGED << source, options >>
  /\ UNCHANGED << serverVars, rootVars, runVars, groupVars, taskVars, sdVars,
                  mainVars, init2Vars, panicked, shutdownFinished, now >>
  /\ UNCHANGED notifyVars

\* --------------------------------------------------------------------- time
Tick ==
  /\ Alive /\ now < MaxTime
  /\ now' = now + 1
  /\ UNCHANGED << serverVars, rootVars, runVars, groupVars, taskVars, sdVars,
                  panicked, shutdownFinished >>
  /\ UNCHANGED << mainVars, init2Vars >>
  /\ UNCHANGED frameVars
  /\ UNCHANGED notifyVars

\* ------------------------------------------------------------ specification
\* The Server value as lines 71-85 build it, nothing initialized; the PID
\* file path is configured or not.
ServerInit(srv) ==
  /\ server = srv
  /\ pidFile \in {"", "grafana.pid"}
  /\ isInitialized = FALSE
  /\ mtx = "free"
  /\ effects = NoEffects
  /\ exited = FALSE
  /\ pidFailed = FALSE
  /\ panicked = FALSE
  /\ context = "active"
  /\ shutdownFnCalls = 0
  /\ shutdownFinished = "open"
  /\ shutdownOnce = [done |-> FALSE, m |-> 0]
  /\ runPc = "idle"
  /\ runErr = Nil
  /\ initErr = Nil
  /\ eg = NewGroup
  /\ ctx = "none"
  /\ next = 1
  /\ taskPc = [s \in Services |-> "pending"]
  /\ taskErr = [s \in Services |-> Nil]
  /\ svcErr = [s \in Services |-> Nil]
  /\ invoked = [s \in Services |-> 0]
  /\ passed = [s \in Services |-> "none"]
  /\ disabled = [s \in Services |-> FALSE]
  /\ firstFailure = 0
  /\ notified = 0
  /\ sdPc = [c \in Callers |-> "idle"]
  /\ sdCtx = [c \in Callers |-> NoDeadline]
  /\ sdErr = [c \in Callers |-> Nil]
  /\ now = 0
  /\ exitCode = 0
  /\ rerun = FALSE
  /\ init2Pc = "idle"
  /\ init2Err = Nil
  /\ overlap = FALSE

\* The process does not run under systemd: NOTIFY_SOCKET is not set.
NoSystemd ==
  /\ notifyEnv = [socket |-> FALSE, dialOk |-> FALSE, writeOk |-> FALSE]
  /\ notifyLog = "none"

\* No call of stringToTime is made.
NoFrames ==
  /\ frames = << >>
  /\ source = << >>
  /\ options = [targetField |-> "", dateFormat |-> ""]
  /\ output = << >>
  /\ stPc = "idle"

\* New has built the Server value (lines 71-85) and is about to call init
\* (line 86).
Init == ServerInit("constructing") /\ NoFrames /\ NoSystemd

\* A Server value of the package that did not go through the init of New:
\* Run is the first to call init (line 139).
InitBuilt == ServerInit("ready") /\ NoFrames /\ NoSystemd

Next ==
  \/ NewInitLock
  \/ NewReturn
  \/ RunCall
  \/ RunInitLock
  \/ RunInit
  \/ RunGroup
  \/ RunLaunch
  \/ RunNotify
  \/ RunWait
  \/ RunReturn
  \/ \E s \in Services : TaskStart(s)
  \/ \E s \in Services : ServiceReturn(s)
  \/ \E c \in Callers : ShutdownCall(c)
  \/ \E c \in Callers : ShutdownUnblock(c)
  \/ \E c \in Callers : ShutdownSelect(c)
  \/ Tick

Spec == Init /\ [][Next]_vars

\* The scheduling of the Go runtime: a goroutine that can take its next step
\* takes it in the end.  This holds for the caller of Run, for the goroutines
\* started by eg.Go and for the callers inside Shutdown.  A service is only
\* taken to return once its context is cancelled; nothing makes the clock
\* advance.
Fairness ==
  /\ WF_vars(RunInitLock) /\ WF_vars(RunInit) /\ WF_vars(RunGroup)
  /\ WF_vars(RunLaunch) /\ WF_vars(RunNotify) /\ WF_vars(RunWait)
  /\ WF_vars(RunReturn)
  /\ \A s \in Services : WF_vars(TaskStart(s))
  /\ \A s \in Services : WF_vars(ctx = "canceled" /\ ServiceReturn(s))
  /\ \A c \in Callers : WF_vars(ShutdownUnblock(c))
  /\ \A c \in Callers : WF_vars(ShutdownSelect(c))

\* Next with a clock that stands still: no deadline of a Shutdown caller
\* elapses.
NextNoTimeout ==
  \/ NewInitLock
  \/ NewReturn
  \/ RunCall
  \/ RunInitLock
  \/ RunInit
  \/ RunGroup
  \/ RunLaunch
  \/ RunNotify
  \/ RunWait
  \/ RunReturn
  \/ \E s \in Services : TaskStart(s)
  \/ \E s \in Services : ServiceReturn(s)
  \/ \E c \in Callers : ShutdownCall(c)
  \/ \E c \in Callers : ShutdownUnblock(c)
  \/ \E c \in Callers : ShutdownSelect(c)

FairSpec == Init /\ [][NextNoTimeout]_vars /\ Fairness

\* The Server built by New or without it.
InitAny == Init \/ InitBuilt

\* New, Run with its services, and a second caller of init.
NextInit ==
  \/ NewInitLock
  \/ NewReturn
  \/ Init2Call
  \/ Init2Lock
  \/ Init2Return
  \/ RunCall
  \/ RunInitLock
  \/ RunInit
  \/ RunGroup
  \/ RunLaunch
  \/ RunNotify
  \/ RunWait
  \/ RunReturn
  \/ \E s \in Services : TaskStart(s)
  \/ \E s \in Services : ServiceReturn(s)

InitSpec == InitAny /\ [][NextInit]_vars

\* Next with further calls of Run after Run has returned.
NextRerun ==
  \/ NewInitLock
  \/ NewReturn
  \/ RunCall
  \/ RunInitLock
  \/ RunInit
  \/ RunGroup
  \/ RunLaunch
  \/ RunNotify
  \/ RunWait
  \/ RunReturn
  \/ RunAgain
  \/ \E s \in Services : TaskStart(s)
  \/ \E s \in Services : ServiceReturn(s)
  \/ \E c \in Callers : ShutdownCall(c)
  \/ \E c \in Callers : ShutdownUnblock(c)
  \/ \E c \in Callers : ShutdownSelect(c)
  \/ Tick

RerunSpec == Init /\ [][NextRerun]_vars

\* The inputs of stringToTime.
Values ==
  { Null, Str(""), Str("2021-07-19 00:00:00.000"), Str("2021/08-01 00:00.00:000"),
    Num(0), Num(1) }
ValueSeqs == UNION { [1..n -> Values] : n \in 0..MaxLen }
FieldTypes == { "string", "number", "time" }
Configs == { "{}", "{ unit: 'time' }" }
Fields == [name : {"time", "A"}, type : FieldTypes, values : ValueSeqs, config : Configs]

\* Fields like those of the frames of stringToTime.test.ts.
SideFields ==
  { [name |-> "A", type |-> "number", values |-> << Num(1), Num(0) >>, config |-> "{}"],
    [name |-> "time", type |-> "string",
     values |-> << Str("2021-07-19 00:00:00.000"), Str("2021/08-01 00:00.00:000") >>,
     config |-> "{ unit: 'time' }"],
    [name |-> "B", type |-> "string", values |-> << Null, Null >>, config |-> "{}"] }

\* stringToTime is about to be called with two frames, one of two fields
\* and one of one field.
FrameInit ==
  /\ ServerInit("constructing") /\ NoSystemd
  /\ \E f \in Fields : \E g, h \in SideFields : frames = << << f, g >>, << h >> >>
  /\ source = frames
  /\ options \in [targetField : {"", "time"}, dateFormat : {"", "YYYY-MM-DD"}]
  /\ output = << >>
  /\ stPc = "idle"

FrameSpec == FrameInit /\ [][StringToTimeCall]_vars

\* What notifySystemd can find: no NOTIFY_SOCKET; a socket that cannot be
\* dialled; a connection that cannot be written to; a working socket.
NotifyEnvs ==
  { [socket |-> FALSE, dialOk |-> FALSE, writeOk |-> FALSE],
    [socket |-> TRUE, dialOk |-> FALSE, writeOk |-> FALSE],
    [socket |-> TRUE, dialOk |-> TRUE, writeOk |-> FALSE],
    [socket |-> TRUE, dialOk |-> TRUE, writeOk |-> TRUE] }

NotifyInit ==
  /\ ServerInit("constructing") /\ NoFrames
  /\ notifyEnv \in NotifyEnvs
  /\ notifyLog = "none"

\* New, and Run with its services.
NextRun ==
  \/ NewInitLock
  \/ NewReturn
  \/ RunCall
  \/ RunInitLock
  \/ RunInit
  \/ RunGroup
  \/ RunLaunch
  \/ RunNotify
  \/ RunWait
  \/ RunReturn
  \/ \E s \in Services : TaskStart(s)
  \/ \E s \in Services : ServiceReturn(s)

NotifySpec == NotifyInit /\ [][NextRun]_vars

\* Next with Shutdown called only after Run has returned.
NextLate ==
  \/ NewInitLock
  \/ NewReturn
  \/ RunCall
  \/ RunInitLock
  \/ RunInit
  \/ RunGroup
  \/ RunLaunch
  \/ RunNotify
  \/ RunWait
  \/ RunReturn
  \/ \E s \in Services : TaskStart(s)
  \/ \E s \in Services : ServiceReturn(s)
  \/ \E c \in Callers : runPc = "returned" /\ ShutdownCall(c)
  \/ \E c \in Callers : ShutdownUnblock(c)
  \/ \E c \in Callers : ShutdownSelect(c)
  \/ Tick

LateSpec == Init /\ [][NextLate]_vars

\* The scheduling of the Go runtime for Run and the service goroutines, with
\* services whose Run returns in the end, cancelled or not.
FairnessReturning ==
  /\ WF_vars(RunInitLock) /\ WF_vars(RunInit) /\ WF_vars(RunGroup)
  /\ WF_vars(RunLaunch) /\ WF_vars(RunNotify) /\ WF_vars(RunWait)
  /\ WF_vars(RunReturn)
  /\ \A s \in Services : WF_vars(TaskStart(s))
  /\ \A s \in Services : WF_vars(ServiceReturn(s))

\* New and Run with services that return, and no Shutdown.
ReturningSpec == Init /\ [][NextRun]_vars /\ FairnessReturning

\* Run on a Server whose init Run is the first to call, Shutdown, and the
\* caller of Run passing its result to ExitCode.
NextBuilt ==
  \/ RunCall
  \/ RunInitLock
  \/ RunInit
  \/ RunGroup
  \/ RunLaunch
  \/ RunNotify
  \/ RunWait
  \/ RunReturn
  \/ ExitCodeCall
  \/ \E s \in Services : TaskStart(s)
  \/ \E s \in Services : ServiceReturn(s)
  \/ \E c \in Callers : ShutdownCall(c)
  \/ \E c \in Callers : ShutdownUnblock(c)
  \/ \E c \in Callers : ShutdownSelect(c)
  \/ Tick

BuiltSpec == InitBuilt /\ [][NextBuilt]_vars

\* ------------------------------------------------------------------- claims
\* The error Run returns for the failure of service s (line 165).
RunError(s) == Wrap("background service run error", Failure(s))

\* Service s has been launched and its goroutine has not returned.
TaskLive(s) == taskPc[s] \in {"spawned", "running"}

\* err is a non-cancellation error: not nil, and context.Canceled is not in
\* its chain.
IsFailure(err) == err # Nil /\ ~ErrorsIs(err, Canceled)

\* Caller c has entered Shutdown.
Entered(c) == sdPc[c] # "idle"

\* C1: however many Shutdown calls there are, one after the other or at the
\* same time, s.shutdownFn is called exactly once: by the first caller, and
\* never again by a later one; the root context is cancelled from then on.
C1_CancelOnce ==
  /\ shutdownFnCalls = IF \E c \in Callers : Entered(c) THEN 1 ELSE 0
  /\ (context = "canceled") = (shutdownFnCalls = 1)

\* C1 witness: every caller has called Shutdown and has returned.
C1_Witness ==
  /\ \A c \in Callers : sdPc[c] = "returned"
  /\ shutdownFnCalls = 1

\* C2: when Run returns and one or more launched services returned a
\* non-cancellation error, Run returns the wrapped error of the service
\* whose failure arrived first.
C2_FirstErrorWins ==
  (runPc = "returned" /\ firstFailure # 0) => runErr = RunError(firstFailure)

\* C3: once Run is returning or has returned after launching, no launched
\* service's goroutine is still to run or running, and the completion
\* channel is closed only then.
C3_RunWaitsForAll ==
  (runPc \in {"closing", "returned"} \/ shutdownFinished = "closed")
    => \A s \in Services : ~TaskLive(s)

\* C3 witness: Run has returned after every service was launched and
\* returned, one with a failure, and after Shutdown cancelled the root
\* context.
C3_Witness ==
  /\ runPc = "returned"
  /\ \A s \in Services : taskPc[s] = "done"
  /\ \E s \in Services : svcErr[s] = Failure(s)
  /\ context = "canceled"

\* C4: a service that reported disabled in the launch loop is never started,
\* its Run is never called, and no error of Run's result comes from it.
C4_DisabledExcluded ==
  \A s \in Services :
    disabled[s] =>
      /\ taskPc[s] = "skipped"
      /\ invoked[s] = 0
      /\ svcErr[s] = Nil /\ taskErr[s] = Nil
      /\ eg.err # RunError(s) /\ runErr # RunError(s)

\* C4 witness: the first service is disabled, a later one is launched and
\* fails, and Run has returned that failure.
C4_Witness ==
  /\ disabled[1]
  /\ runPc = "returned"
  /\ \E s \in Services : s > 1 /\ runErr = RunError(s)

\* C5: from the moment a launched service has returned a non-cancellation
\* error, the group context is cancelled, and it stays so.
C5_FailureCancelsGroup ==
  (\E s \in Services : taskPc[s] = "done" /\ IsFailure(svcErr[s]))
    => ctx = "canceled"

\* C5 witness: a service has failed while a sibling is still inside its Run,
\* and the group context is cancelled though no Shutdown cancelled the root.
C5_Witness ==
  /\ \E s, u \in Services :
       /\ taskPc[s] = "done" /\ svcErr[s] = Failure(s)
       /\ taskPc[u] = "running"
  /\ ctx = "canceled"
  /\ context = "active"

\* C6: when Run returns after a successful init and no service returned a
\* non-cancellation error, Run returns nil.
C6_CancelNotEscalated ==
  (/\ runPc = "returned"
   /\ initErr = Nil
   /\ \A s \in Services : ~IsFailure(svcErr[s]))
    => runErr = Nil

\* C7: once Run has been called, a Shutdown call that returned nil returned
\* after Run closed the completion channel.
C7_NilOnlyOnCompletion ==
  \A c \in Callers :
    (runPc # "idle" /\ sdPc[c] = "returned" /\ sdErr[c] = Nil)
      => shutdownFinished = "closed"

\* C8: when a Shutdown call that waited for another one in progress returns
\* while Run is still blocked on a running service, and both were given the
\* same deadline, it returns what the other returned.
C8_SameOutcome ==
  [][\A b, c \in Callers :
       (/\ sdPc[b] = "returned"
        /\ sdPc[c] = "blocked" /\ sdPc'[c] = "returned"
        /\ sdCtx[b] = sdCtx[c]
        /\ runPc = "wait" /\ \E s \in Services : taskPc[s] = "running")
         => sdErr'[c] = sdErr[b]]_vars

\* C9: when a Shutdown call whose deadline has elapsed returns while Run is
\* waiting for a launched service still inside its Run, it returns the
\* timeout error,
\* the completion channel is still open and the service is still running.
C9_TimeoutOnHungService ==
  [][\A c \in Callers :
       (/\ sdPc[c] \in {"select", "blocked"} /\ sdPc'[c] = "returned"
        /\ CtxDone(c)
        /\ runPc = "wait" /\ \E s \in Services : taskPc[s] = "running")
         => (/\ sdErr'[c] = TimeoutErr
             /\ shutdownFinished' = "open"
             /\ \E s \in Services : taskPc'[s] = "running")]_vars

\* C10: while Run is executing, a caller waiting in Shutdown whose own
\* deadline has elapsed can return, whatever the other callers are waiting
\* for.
C10_BoundedByOwnDeadline ==
  \A c \in Callers :
    (runPc # "idle" /\ sdPc[c] \in {"select", "blocked"} /\ CtxDone(c))
      => ENABLED (ShutdownSelect(c) \/ ShutdownUnblock(c))

\* The caller that executes the function of s.shutdownOnce.Do: the first to
\* call Shutdown.
Runner == 1

\* C11: when Run is executing and Shutdown has been called with a ctx that
\* has no deadline, then, the services returning once their context is
\* cancelled, Run returns in the end and every caller inside Shutdown
\* returns nil.
C11_GracefulShutdown ==
  (runPc # "idle" /\ Entered(Runner))
    ~> /\ runPc = "returned"
       /\ \A c \in Callers : Entered(c) => sdPc[c] = "returned" /\ sdErr[c] = Nil

\* C11 witness: Shutdown was called without a deadline while a service was
\* running, the service returned ctx.Err(), Run has returned and every
\* caller of Shutdown has returned nil.
C11_Witness ==
  /\ runPc = "returned"
  /\ sdCtx[Runner] = NoDeadline
  /\ \A c \in Callers : sdPc[c] = "returned" /\ sdErr[c] = Nil
  /\ \E s \in Services : invoked[s] = 1 /\ svcErr[s] = Canceled

\* Run has returned to its caller.
RunReturned == runPc \in {"returned", "exit"}

\* C12: the completion channel is closed exactly when Run has returned,
\* whether Run returns nil, a service failure or an error of init; it is
\* never closed a second time (which would panic); and with the channel
\* closed a caller waiting in the select of Shutdown can return.
C12_MarkerOnReturn ==
  /\ (shutdownFinished = "closed") = RunReturned
  /\ ~panicked
  /\ \A c \in Callers :
       (sdPc[c] = "select" /\ shutdownFinished = "closed") => ENABLED ShutdownSelect(c)

\* C12 witness: init failed inside Run, Run has returned the error and
\* closed the channel, and a Shutdown caller without a deadline has returned.
C12_Witness ==
  /\ runPc = "returned"
  /\ runErr \in {MetricsErr, MigrateErr}
  /\ shutdownFinished = "closed"
  /\ sdPc[Runner] = "returned" /\ sdCtx[Runner] = NoDeadline /\ sdErr[Runner] = Nil

\* C13: a Run called after a Run has returned does not end abnormally: it
\* does not panic, and the completion channel stays closed as the first Run
\* left it.
C13_RerunSafe ==
  rerun => ~panicked /\ shutdownFinished = "closed"

\* This step is the return of a call of init: the deferred Unlock runs.
InitReturns == mtx # "free" /\ mtx' = "free"

\* C14: each one-time side effect of init (PID file, metrics environment,
\* login, OAuth, migration) runs at most once on a Server, whoever calls
\* init (New, Run, a second caller) and however the calls interleave; a call
\* of init on an initialized Server returns nil and runs none of them.
C14_InitOnce ==
  [][ /\ \A k \in DOMAIN effects : effects'[k] <= 1
      /\ (isInitialized /\ InitReturns) => (initErr' = Nil /\ effects' = effects)
    ]_vars

\* C14 witness: Run and a second caller called init at overlapping times on
\* a Server built without New; both calls have returned and each side effect
\* has run once.
C14_Witness ==
  /\ overlap /\ init2Pc = "done" /\ runPc = "group"
  /\ effects = [pid |-> 1, metrics |-> 1, login |-> 1, oauth |-> 1, migrate |-> 1]

\* An error of one of the fallible steps of init.
InitErrors == { MetricsErr, MigrateErr }

\* The init call of Run has just returned: runErr holds what it returned.
RunPastInit == runPc = "group" \/ (runPc = "closing" /\ ctx = "none")

C16_FailureLeavesUninitialized ==
  initErr \in InitErrors => ~isInitialized

\* A call of init on the Server has returned an error.
InitFailed == initErr # Nil \/ init2Err # Nil

C18_ReadyOnce ==
  /\ runPc \in {"idle", "init", "group", "launch"} => notified = 0
  /\ runPc = "wait" => (notified = 1 /\ next > NumServices)
  /\ (runPc = "closing" \/ RunReturned) => notified = (IF ctx = "none" THEN 0 ELSE 1)
  /\ (Alive /\ runPc = "launch" /\ next > NumServices) => ENABLED RunNotify

\* C18 witness: the notification has been issued and Run waits while no
\* launched service has completed: one goroutine has not started, another is
\* inside service.Run.
C18_Witness ==
  /\ runPc = "wait" /\ notified = 1
  /\ \E s, u \in Services : taskPc[s] = "spawned" /\ taskPc[u] = "running"

\* C19: when Run has returned, Shutdown was never called and every service
\* that was launched ran and returned nil, Run has returned nil; this
\* includes the Run in which every service was skipped as disabled.
C19_CleanRunReturnsNil ==
  ( /\ runPc = "returned"
    /\ shutdownFnCalls = 0
    /\ \A s \in Services : taskPc[s] = "done" => (invoked[s] = 1 /\ svcErr[s] = Nil) )
  => runErr = Nil

\* C19 witness: every service was launched and returned nil, no Shutdown
\* was called and Run has returned nil.
C19_Witness ==
  /\ runPc = "returned" /\ runErr = Nil
  /\ shutdownFnCalls = 0
  /\ \A s \in Services : taskPc[s] = "done" /\ invoked[s] = 1 /\ svcErr[s] = Nil

\* C20: the call of ExitCode gives 0 for a nil error and 1 for any other
\* error (of init, of a service, or context.Canceled) and changes nothing of
\* the Server.
C20_ExitCode ==
  [][ (runPc = "returned" /\ runPc' = "exit")
        => /\ runErr = Nil => exitCode' = 0
           /\ runErr # Nil => exitCode' = 1
           /\ UNCHANGED << serverVars, rootVars, groupVars, taskVars, sdVars,
                           shutdownFinished, panicked, runErr, notified >>
    ]_vars

\* C20 witness: ExitCode has returned 1 for the wrapped failure of a service.
C20_Witness ==
  /\ runPc = "exit" /\ exitCode = 1
  /\ \E s \in Services : runErr = RunError(s)

\* C21: the process exits exactly when writePIDFile, with a path
\* configured, fails; then no later step of init has run and init has not
\* returned to its caller, with an error or without.  With no path
\* configured the PID step is not done and init goes on to the later steps.
C21_PidFailureExits ==
  /\ exited = pidFailed
  /\ exited =>
       /\ pidFile # ""
       /\ effects = [NoEffects EXCEPT !.pid = 1]
       /\ initErr = Nil /\ init2Err = Nil /\ runErr = Nil
       /\ mtx # "free"
       /\ server # "none"
       /\ mtx = "New" => server = "constructing"
       /\ mtx = "Run" => runPc = "init"
       /\ mtx = "Init2" => init2Pc = "init"
  /\ (pidFile = "" /\ isInitialized) => (effects.pid = 0 /\ effects.metrics = 1)

\* C21 witness: the PID file could not be written in the init call of New:
\* the process has exited and New has not returned.
C21_Witness ==
  /\ exited /\ pidFailed
  /\ mtx = "New" /\ server = "constructing"

\* Caller c is inside Shutdown and has not returned.
Waiting(c) == sdPc[c] \in {"select", "blocked"}

\* Some task of the Server has started and not finished.
TaskPending ==
  \/ runPc \in {"init", "group", "launch", "wait", "closing"}
  \/ \E s \in Services : TaskLive(s)
  \/ \E c \in Callers : Waiting(c)

\* C22: once Run was called, a caller inside Shutdown waits for nothing but
\* the completion channel and the deadline of its own ctx: with the channel
\* closed or its deadline reached it can return, whatever the other callers
\* do; and while a task is unfinished some task can take a step.
C22_NoTaskWaitsOnTask ==
  /\ \A c \in Callers :
       (Alive /\ runPc # "idle" /\ Waiting(c)
          /\ (shutdownFinished = "closed" \/ CtxDone(c)))
         => ENABLED (ShutdownSelect(c) \/ ShutdownUnblock(c))
  /\ (Alive /\ TaskPending) => ENABLED NextNoTimeout

\* The lifecycle state of the Server, read from its fields and from where
\* Run is: stopped once Run has returned and closed s.shutdownFinished;
\* shuttingDown while s.context is cancelled and Run has not returned;
\* running while Run is between its init call and its return; initializing
\* from the first call of init until then; uninitialized before.
Lifecycle ==
  IF RunReturned THEN "stopped"
  ELSE IF context = "canceled" THEN "shuttingDown"
  ELSE IF runPc \in {"group", "launch", "wait", "closing"} THEN "running"
  ELSE IF isInitialized \/ mtx # "free" THEN "initializing"
  ELSE "uninitialized"

\* The transitions of the lifecycle.
LifecycleSteps ==
  { << "uninitialized", "initializing" >>,
    << "initializing", "running" >>,
    << "running", "stopped" >>,
    << "running", "shuttingDown" >>,
    << "shuttingDown", "stopped" >> }

\* C23: each step of New, Run and Shutdown leaves the lifecycle state as it
\* is or moves it along uninitialized -> initializing -> running -> stopped
\* or running -> shuttingDown -> stopped; shuttingDown is entered from
\* running only and nothing leaves stopped.
C23_Lifecycle ==
  [][ Lifecycle' = Lifecycle \/ << Lifecycle, Lifecycle' >> \in LifecycleSteps ]_vars

\* stringToTime has returned and field j of frame i was a target field.
Target(i, j) == source[i][j].name = options.targetField

\* C24: stringToTime with a targetField returns as many frames with as many
\* fields; a field named targetField has become of type time with its name
\* and config as before, every other field is as before; without a
\* targetField the frames are returned as they were.
C24_OnlyTargetChanged ==
  stPc = "done" =>
    IF options.targetField = ""
      THEN output = source
      ELSE /\ Len(output) = Len(source)
           /\ \A i \in 1..Len(source) :
                /\ Len(output[i]) = Len(source[i])
                /\ \A j \in 1..Len(source[i]) :
                     IF Target(i, j)
                       THEN /\ output[i][j].type = "time"
                            /\ output[i][j].name = source[i][j].name
                            /\ output[i][j].config = source[i][j].config
                       ELSE output[i][j] = source[i][j]

\* Field j of frame i was a target field of type string that stringToTime
\* converts: its first value is not a number.
Converted(i, j) ==
  /\ Target(i, j)
  /\ source[i][j].type = "string"
  /\ Get(source[i][j].values, 0).kind \notin {"number", "NaN"}

\* The value is null or empty, or a string that does not read as a date.
Unparsable(value) ==
  \/ value \in { Null, Undefined, Str("") }
  \/ value.kind = "string" /\ value.s \notin ValidDates

C26_NotifyBestEffort ==
  [][ /\ notified' <= 1
      /\ (runPc = "launch" /\ runPc' # "launch")
           => /\ runPc' = "wait"
              /\ notified' = notified + 1
              /\ notifyLog' \in {"no socket", "connect failed", "write failed", "sent"}
              /\ UNCHANGED << runErr, next, eg, ctx, taskVars, context, shutdownFinished >>
      /\ (runPc = "wait" /\ runPc' = "closing") => runErr' = eg.err
    ]_vars

\* C26 witness: the write of the notification failed; every service was
\* launched and has run, one failed, and Run has returned its error.
C26_Witness ==
  /\ notifyLog = "write failed"
  /\ runPc = "returned" /\ runErr = RunError(1)
  /\ \A s \in Services : taskPc[s] = "done" /\ invoked[s] = 1

\* C27: when Shutdown is first called after Run has returned, with a ctx
\* whose deadline is not reached, the call cancels s.context (the one call of
\* s.shutdownFn), can leave the select at once, and returns nil.
C27_LateShutdown ==
  (Entered(Runner) /\ ~CtxDone(Runner))
    => /\ shutdownFnCalls = 1 /\ context = "canceled"
       /\ sdPc[Runner] = "select" =>
            /\ ENABLED ShutdownSelect(Runner)
            /\ SelectErrs(shutdownFinished, CtxDone(Runner)) = { Nil }
       /\ sdPc[Runner] = "returned" => sdErr[Runner] = Nil

\* C27 witness: Shutdown was first called after Run had returned, with a
\* deadline still ahead, and has returned nil.
C27_Witness ==
  /\ runPc = "returned"
  /\ sdPc[Runner] = "returned" /\ sdErr[Runner] = Nil
  /\ sdCtx[Runner] # NoDeadline /\ now < sdCtx[Runner]
  /\ shutdownFnCalls = 1

\* C28: a Run that was called on the Server New returned, with services
\* that return in the end and without any Shutdown, returns in the end and
\* the completion channel is closed.
C28_RunTerminates ==
  (runPc = "init") ~> (runPc = "returned" /\ shutdownFinished = "closed")

\* C28 witness: without a Shutdown, every service was launched, ran and
\* returned nil; Run has returned and the channel is closed.
C28_Witness ==
  /\ runPc = "returned" /\ shutdownFinished = "closed"
  /\ context = "active" /\ \A c \in Callers : sdPc[c] = "idle"
  /\ \A s \in Services : invoked[s] = 1 /\ taskPc[s] = "done" /\ svcErr[s] = Nil

\* C29: when service.Run returns an error that is or wraps
\* context.Canceled, cancelled context or not, the goroutine returns nil:
\* the step leaves the group, its error and its context as they were and
\* moves no other goroutine, and the error is not what the service adds to
\* the result of Run.
C29_CanceledIsClean ==
  [][ \A s \in Services :
        (taskPc[s] = "running" /\ taskPc'[s] = "done" /\ ErrorsIs(svcErr'[s], Canceled))
          => /\ taskErr'[s] = Nil
             /\ UNCHANGED << eg, ctx, context, runErr >>
             /\ \A u \in Services \ {s} : taskPc'[u] = taskPc[u]
    ]_vars

\* C29 witness: with no context cancelled, a service returned an error
\* wrapping context.Canceled; the group context is still active, the group
\* has no error and another service is still running.
C29_Witness ==
  /\ context = "active" /\ ctx = "active" /\ eg.err = Nil
  /\ \E s, u \in Services :
       /\ taskPc[s] = "done" /\ svcErr[s] = Wrap("service stopped", Canceled)
       /\ taskErr[s] = Nil
       /\ taskPc[u] = "running"

\* C30: a goroutine that starts when the group context is cancelled returns
\* without calling service.Run; the group context of a Run that comes after
\* Shutdown is cancelled from the start, and a cancelled group context stays
\* cancelled.
C30_NoInvokeAfterCancel ==
  [][ /\ \A s \in Services :
           (taskPc[s] = "spawned" /\ ctx = "canceled" /\ taskPc'[s] # "spawned")
             => (taskPc'[s] = "done" /\ invoked'[s] = 0 /\ svcErr'[s] = Nil)
      /\ (runPc = "group" /\ runPc' = "launch" /\ context = "canceled") => ctx' = "canceled"
      /\ ctx = "canceled" => ctx' = "canceled"
    ]_vars

\* C30 witness: Shutdown was called before Run; Run launched every service
\* and has returned, and no service.Run was called.
C30_Witness ==
  /\ runPc = "returned" /\ shutdownFnCalls = 1
  /\ \A s \in Services : taskPc[s] = "done" /\ invoked[s] = 0

\* A launched service's goroutine returns in this step: from inside
\* service.Run, or from the check of the group context before it.
Returns(s) == TaskLive(s) /\ taskPc'[s] = "done"

\* C31: the group context becomes cancelled only in a step in which a
\* service returns a non-cancellation error, or Shutdown cancels the root
\* context (or had cancelled it when the group context is derived), or
\* eg.Wait returns with every launched service returned; a service that
\* returns nil while a sibling is still running leaves it as it was.
C31_NilKeepsGroupContext ==
  [][ /\ (ctx # "canceled" /\ ctx' = "canceled")
           => \/ \E s \in Services : Returns(s) /\ IsFailure(svcErr'[s])
              \/ context' = "canceled" /\ shutdownFnCalls' >= 1
              \/ /\ runPc = "wait" /\ runPc' = "closing"
                 /\ \A s \in Services : ~TaskLive(s)
      /\ \A s \in Services :
           (Returns(s) /\ svcErr'[s] = Nil /\ taskErr'[s] = Nil
              /\ \E u \in Services \ {s} : TaskLive(u))
             => ctx' = ctx
    ]_vars

\* C31 witness: a service has returned nil from its Run while a sibling is
\* inside its Run; no service has failed, Shutdown was not called, and the
\* group context is not cancelled.
C31_Witness ==
  /\ ctx = "active" /\ context = "active" /\ firstFailure = 0
  /\ \E s, u \in Services :
       /\ taskPc[s] = "done" /\ invoked[s] = 1 /\ svcErr[s] = Nil
       /\ taskPc[u] = "running"

\* C32: s.context changes only in a step in which a caller of Shutdown runs
\* the function of the Once and calls s.shutdownFn; a step in which a
\* service returns, with a failure or cleanly, and every step of Run, its
\* return with or without an error included, leave it as it was; the
\* failure of a service cancels the group context.
C32_RootOnlyByShutdown ==
  [][ /\ context' # context
           => /\ \E c \in Callers : sdPc[c] = "idle" /\ sdPc'[c] = "select"
              /\ shutdownFnCalls' = shutdownFnCalls + 1
      /\ (\E s \in Services : Returns(s)) => context' = context
      /\ runPc' # runPc => context' = context
      /\ (\E s \in Services : Returns(s) /\ IsFailure(svcErr'[s]))
           => (ctx' = "canceled" /\ context' = context)
    ]_vars

\* C32 witness: Run has returned the failure of a service, another service
\* had returned nil, Shutdown was never called: the group context is
\* cancelled and the root context is not.
C32_Witness ==
  /\ runPc = "returned" /\ context = "active" /\ ctx = "canceled"
  /\ \A c \in Callers : sdPc[c] = "idle"
  /\ \E s, u \in Services :
       /\ runErr = RunError(s)
       /\ taskPc[u] = "done" /\ invoked[u] = 1 /\ svcErr[u] = Nil

\* C33: a Run that has passed init and is about to make its group goes on
\* to call notifySystemd, whatever the services do and whether or not
\* Shutdown has cancelled the root context: the launch loop is left only by
\* the call, also with every service disabled, with a launched service
\* failed and with the contexts cancelled.
C33_ReadyRegardless ==
  /\ (runPc = "group") ~> (notified = 1)
  /\ [][ (runPc = "launch" /\ runPc' # "launch") => notified' = notified + 1 ]_vars

\* C33 witness: the notification has been issued and Run waits; Shutdown
\* has cancelled the root context, one service was disabled and another
\* has failed.
C33_Witness ==
  /\ runPc = "wait" /\ notified = 1
  /\ context = "canceled" /\ ctx = "canceled"
  /\ \E s, u \in Services :
       /\ taskPc[s] = "skipped"
       /\ taskPc[u] = "done" /\ svcErr[u] = Failure(u)

\* C34: in a Run, service.Run of a service is called at most once, and
\* with the group context; the goroutine of a service whose Run has
\* returned, with nil or with an error, ends, and from then on the service
\* is not called again: its goroutine, its call count and what it returned
\* stay as they are.
C34_InvokedOnce ==
  /\ [](\A s \in Services :
          /\ invoked[s] <= 1
          /\ passed[s] = (IF invoked[s] = 0 THEN "none" ELSE "ctx")
          /\ invoked[s] = 1 <=> (taskPc[s] = "running" \/ svcErr[s] # Nil
                                   \/ (taskPc[s] = "done" /\ taskErr[s] = Nil)))
  /\ [][ \A s \in Services :
           /\ (taskPc[s] = "running" /\ taskPc'[s] # "running") => taskPc'[s] = "done"
           /\ taskPc[s] = "done"
                => /\ taskPc'[s] = "done" /\ invoked'[s] = invoked[s]
                   /\ svcErr'[s] = svcErr[s] /\ taskErr'[s] = taskErr[s]
    ]_vars

\* C34 witness: Run has returned; every service was called once with the
\* group context; one returned an error, another nil, and none was called
\* again.
C34_Witness ==
  /\ runPc = "returned"
  /\ \A s \in Services : taskPc[s] = "done" /\ invoked[s] = 1 /\ passed[s] = "ctx"
  /\ \E s, u \in Services : svcErr[s] = Failure(s) /\ svcErr[u] = Nil

====
